---- MODULE Spec2Model ----
(***************************************************************************)
(* A state-machine model of Update_obervers_notifications.py: main() and   *)
(* the functions it drives.  One run enumerates the courses of the terms   *)
(* given on the command line, resolves the observers of each course in a   *)
(* thread pool, removes duplicate user ids and then, in a second thread    *)
(* pool, rewrites the notification preferences of every user.              *)
(*                                                                         *)
(* Every action is one step of the program at the granularity of a remote  *)
(* call, a pool join or a line appended to the log; the local computation  *)
(* that follows a remote call up to the next one belongs to the same       *)
(* action.                                                                 *)
(***************************************************************************)
EXTENDS Integers, Sequences, FiniteSets, TLC

(***************************************************************************)
(* Bounds of the model.                                                    *)
(***************************************************************************)
MaxUser == 2        \* user ids are 1..MaxUser
NumTerms == 2       \* term ids are 1..NumTerms
MaxMembers == 3     \* the courses list at most MaxMembers observers in all (with repeats)
MaxChannels == 2    \* a user has 1..MaxChannels communication channels
MaxFaults == 1      \* at most MaxFaults remote calls of a run fail

Users == 1..MaxUser
Terms == 1..NumTerms
Courses == Terms    \* the account holds one course per term: course t in term t

(***************************************************************************)
(* Configuration options (lines 23-58).                                    *)
(***************************************************************************)
NOTIFICATION_OPTIONS ==
    [o \in 0..3 |-> CASE o = 0 -> "never"
                      [] o = 1 -> "immediately"
                      [] o = 2 -> "daily"
                      [] o = 3 -> "weekly"]

ENROLLMENT_TYPES == [o \in {0} |-> "observer"]

EXCLUDED_NOTIFICATIONS ==
    {"confirm_sms_communication_channel", "account_user_notification"}

MAX_THREADS == 20

\* os.environ.get / os.getenv give None for a value that is not set
None == -1

(***************************************************************************)
(* The remote platform, as far as the run reads it.                        *)
(***************************************************************************)
\* the notification categories a channel's preference list holds, in the
\* order of the JSON list the GET returns
Notifications == <<"account_user_notification", "announcement", "grading">>

Keys == {Notifications[i] : i \in 1..Len(Notifications)}

\* the frequencies the remote preferences hold before the run
RemoteFrequencies == {"never", "daily"}

\* the values of NOTIFICATION_OPTION the configuration file may hold
OptionChoices == {0, 2}

RECURSIVE SeqsUpTo(_, _)
SeqsUpTo(S, n) ==
    IF n = 0 THEN {<<>>}
    ELSE LET shorter == SeqsUpTo(S, n - 1)
         IN  shorter \cup {Append(s, x) : s \in {t \in shorter : Len(t) = n - 1}, x \in S}

Range(s) == {s[i] : i \in 1..Len(s)}

VARIABLES
    environ,        \* the configuration: name -> value, None when not set
    TERM_IDS,       \* sys.argv[1].split(","): the term ids, in order
    members,        \* remote: course -> the observer ids get_users() yields
    remote,         \* remote: user -> sequence (one per channel) of
                    \*         [notification -> frequency]
    start,          \* the value of remote when this run of main() began
    run,            \* 1 for the first invocation of main(), 2 for a re-run
    pc,             \* where main() is
    all_courses,    \* courses_in_term: list of course ids
    course_task,    \* per position of all_courses: state of its pool task
    results,        \* per position of all_courses: the list its task returned
    all_user_ids,   \* the list get_user_ids returned
    all_users,      \* main's all_users after remove_duplicates: a set
    task,           \* user -> state of submit_user_for_change(user)
    channel,        \* user -> index of the channel the task is at
    preferences,    \* user -> the filtered preference list of that channel
    futures,        \* user -> submission_futures: state of each write
    canvas_output,  \* user -> lines produced and not yet logged
    log,            \* writer -> the lines that writer appended to the log,
                    \* in order (writer 0: main and the course tasks)
    puts,           \* <<user, channel, notification>> -> for each PUT issued,
                    \* the run and the frequency the preference was fetched with
    failed          \* the remote calls of this run that failed

vars == <<environ, TERM_IDS, members, remote, start, run, pc, all_courses,
          course_task, results, all_user_ids, all_users, task, channel, preferences,
          futures, canvas_output, log, puts, failed>>

envVars == <<environ, TERM_IDS, members, start>>
courseVars == <<all_courses, course_task, results, all_user_ids, all_users>>
userVars == <<task, channel, preferences, futures, canvas_output>>
logVars == <<log>>

(***************************************************************************)
(* Log lines.  A line is kept as the fields the program formats into it.   *)
(***************************************************************************)
Line(u, kind, c, k) == [user |-> u, kind |-> kind, channel |-> c, notification |-> k]

\* rootLogger.info(line) by writer w: the line is appended to the log.  The
\* log is kept as the lines of each writer, in the order they were appended.
LogAppend(w, line) == log' = [log EXCEPT ![w] = Append(@, line)]

NoPuts == [t \in Users \X (1..MaxChannels) \X Keys |-> <<>>]

EmptyLog == [w \in 0..MaxUser |-> <<>>]

IdleUsers ==
    /\ task = [u \in Users |-> "none"]
    /\ channel = [u \in Users |-> 0]
    /\ preferences = [u \in Users |-> <<>>]
    /\ futures = [u \in Users |-> <<>>]
    /\ canvas_output = [u \in Users |-> <<>>]


(***************************************************************************)
(* Initial states: the configuration and the remote platform a run meets.  *)
(***************************************************************************)
ConfigNames ==
    {"NOTIFICATION_OPTION", "ENROLMENT_OPTION", "CANVAS_API_KEY", "CANVAS_URL",
     "CANVAS_ACCOUNT"}

CompleteEnviron(o) ==
    [n \in ConfigNames |-> IF n = "NOTIFICATION_OPTION" THEN o
                           ELSE IF n = "ENROLMENT_OPTION" THEN 0 ELSE 1]

UserSeq == [i \in 1..MaxUser |-> i]

\* every user observes exactly one course
SpreadMembers ==
    [c \in Courses |-> SelectSeq(UserSeq, LAMBDA u : (u % NumTerms) + 1 = c)]

\* every user observes course 1
SingleCourse == [c \in Courses |-> IF c = 1 THEN UserSeq ELSE <<>>]

RECURSIVE TotalLen(_, _)
TotalLen(m, n) == IF n = 0 THEN 0 ELSE Len(m[n]) + TotalLen(m, n - 1)

MemberLists == SeqsUpTo(Users, MaxMembers)

\* a channel whose first n preferences (in list order) are at frequency f
\* and whose other preferences are at frequency g
ChannelPrefs(n, f, g) ==
    [k \in Keys |-> IF \E i \in 1..n : Notifications[i] = k THEN f ELSE g]

ChannelProfiles ==
    {ChannelPrefs(n, "daily", "never") : n \in 0..Len(Notifications)}

UserProfiles == SeqsUpTo(ChannelProfiles, MaxChannels) \ {<<>>}

\* one channel with every preference at "daily"; one channel with every
\* preference at "never"; a channel at "never" followed by one at "daily"
FewProfiles ==
    {<<ChannelPrefs(0, "never", "daily")>>,
     <<ChannelPrefs(0, "daily", "never")>>,
     <<ChannelPrefs(0, "daily", "never"), ChannelPrefs(0, "never", "daily")>>}

\* one channel, every preference at "daily"
PlainRemote == [u \in Users |-> <<ChannelPrefs(0, "never", "daily")>>]

InitRun ==
    /\ run = 1
    /\ start = remote
    /\ pc = "config"
    /\ all_courses = <<>>
    /\ course_task = <<>>
    /\ results = <<>>
    /\ all_user_ids = <<>>
    /\ all_users = {}
    /\ IdleUsers
    /\ log = EmptyLog
    /\ puts = NoPuts
    /\ failed = {}

\* a required configuration value is missing
InitConfig ==
    /\ environ \in {[CompleteEnviron(0) EXCEPT ![n] = None] : n \in ConfigNames}
    /\ TERM_IDS = [i \in 1..NumTerms |-> i]
    /\ members = SpreadMembers
    /\ remote = PlainRemote

\* every term is listed once, in order, and every user observes one course
InitTerms ==
    /\ environ = CompleteEnviron(0)
    /\ TERM_IDS = [i \in 1..NumTerms |-> i]
    /\ members = SpreadMembers
    /\ remote = PlainRemote

\* any course lists, any list of terms
InitEnum ==
    /\ environ = CompleteEnviron(0)
    /\ TERM_IDS \in [1..NumTerms -> Terms]
    /\ members \in {m \in [Courses -> MemberLists] : TotalLen(m, NumTerms) <= MaxMembers}
    /\ remote = PlainRemote

\* one user, with any channels and preferences, and any desired frequency
InitSync ==
    /\ environ \in {CompleteEnviron(o) : o \in OptionChoices}
    /\ TERM_IDS = <<1>>
    /\ members = [c \in Courses |-> IF c = 1 THEN <<1>> ELSE <<>>]
    /\ remote \in {r \in [Users -> UserProfiles] : \A u \in Users : u > 1 => r[u] = PlainRemote[u]}

\* every user, each with one of a few channel lists
InitUsers ==
    /\ environ = CompleteEnviron(0)
    /\ TERM_IDS = <<1>>
    /\ members = SingleCourse
    /\ remote \in [Users -> FewProfiles]

Init == (InitConfig \/ InitTerms \/ InitSync \/ InitUsers) /\ InitRun

(***************************************************************************)
(* main(), lines 453-489: configuration, connection, account.              *)
(***************************************************************************)
Raise == pc' = "raised"

\* a remote call fails only while the run has had fewer than MaxFaults failures
CanFail == Cardinality(failed) < MaxFaults

Failure(call, id, c, k) == [call |-> call, id |-> id, channel |-> c, notification |-> k]

\* lines 468-483: every required value is set
valid_configuration_no_account ==
    \A n \in ConfigNames \ {"CANVAS_ACCOUNT"} : environ[n] # None

valid_configuration == \A n \in ConfigNames : environ[n] # None

\* lines 463-486: a missing value raises InvalidConfigurationException
main_validate ==
    /\ pc = "config"
    /\ IF ~valid_configuration
       THEN /\ Raise
            /\ UNCHANGED logVars
       ELSE /\ pc' = "connect"
            /\ LogAppend(0, Line(0, "Program start", 0, ""))
    /\ UNCHANGED <<envVars, remote, run, courseVars, userVars, puts, failed>>

\* line 488, lines 107-137: the connection is made, or the exception is
\* logged and raised again
connect_to_canvas ==
    /\ pc = "connect"
    /\ \/ pc' = "account"
       \/ Raise
    /\ UNCHANGED <<envVars, remote, run, courseVars, userVars, logVars, puts, failed>>

\* line 489, lines 140-175
get_account ==
    /\ pc = "account"
    /\ \/ pc' = "courses"
       \/ Raise
    /\ UNCHANGED <<envVars, remote, run, courseVars, userVars, logVars, puts, failed>>

(***************************************************************************)
(* Enumeration: lines 187-255.                                             *)
(***************************************************************************)
\* canvas_account.get_courses(enrollment_term_id = term_id)
get_courses(term_id) == <<term_id>>

\* lines 195-207: the courses of each term, concatenated in TERM_IDS order
course_list_last(terms) ==
    IF terms = <<>> THEN <<>> ELSE get_courses(terms[Len(terms)])

RECURSIVE course_list_of(_)
course_list_of(terms) ==
    IF terms = <<>> THEN <<>>
    ELSE course_list_of(SubSeq(terms, 1, Len(terms) - 1)) \o get_courses(terms[Len(terms)])

\* line 496 (and display_term_ids, line 492), then get_user_ids up to the
\* submission of one task per course (lines 216-232)
get_courses_by_term_ids ==
    /\ pc = "courses"
    /\ all_courses' = course_list_of(TERM_IDS)
    /\ course_task' = [i \in 1..Len(all_courses') |-> "pending"]
    /\ results' = [i \in 1..Len(all_courses') |-> <<>>]
    /\ pc' = "get_user_ids"
    /\ UNCHANGED <<envVars, remote, run, all_user_ids, all_users, userVars, logVars, puts, failed>>

\* leaving the with block of a ThreadPoolExecutor (lines 231-232, 286-297)
\* waits until every submitted task has ended
pool_left_early(tasks) == TRUE

pool_joined(tasks) == \A i \in DOMAIN tasks : tasks[i] \in {"none", "done", "raised"}

Running(tasks, states) == Cardinality({i \in DOMAIN tasks : tasks[i] \in states})

\* lines 244-255: the ids of the users get_users() yields, in order
get_course_user_ids(canvas_course) == members[canvas_course]

\* lines 222-227, one pool task: the course's ids are resolved and its line
\* is logged, or get_users() raises and the task ends with the exception
threaded_courses(i) ==
    /\ pc = "get_user_ids"
    /\ course_task[i] = "pending"
    /\ Running(course_task, {"running"}) < MAX_THREADS
    /\ \/ /\ course_task' = [course_task EXCEPT ![i] = "done"]
          /\ results' = [results EXCEPT ![i] = get_course_user_ids(all_courses[i])]
          /\ LogAppend(0, Line(0, "course", all_courses[i], ""))
          /\ UNCHANGED failed
       \/ /\ CanFail
          /\ course_task' = [course_task EXCEPT ![i] = "raised"]
          /\ failed' = failed \cup {Failure("get_users", i, 0, "")}
          /\ UNCHANGED <<results, logVars>>
    /\ UNCHANGED <<envVars, remote, run, pc, all_courses, all_user_ids, all_users, userVars, puts>>

\* lines 234-235: for result in results: all_user_ids = result + all_user_ids
collect_results_last(res) ==
    IF res = <<>> THEN <<>> ELSE res[Len(res)]

RECURSIVE collect_results(_)
collect_results(res) ==
    IF res = <<>> THEN <<>>
    ELSE res[Len(res)] \o collect_results(SubSeq(res, 1, Len(res) - 1))

\* lines 231-241: the pool is left when every task has ended; iterating the
\* results raises the exception of a task that raised
get_user_ids ==
    /\ pc = "get_user_ids"
    /\ pool_joined(course_task)
    /\ IF \E i \in DOMAIN course_task : course_task[i] = "raised"
       THEN /\ Raise
            /\ UNCHANGED <<all_user_ids, logVars>>
       ELSE /\ all_user_ids' = collect_results(results)
            /\ LogAppend(0, Line(0, "Finished in", 0, ""))
            /\ pc' = "remove_duplicates"
    /\ UNCHANGED <<envVars, remote, run, all_courses, course_task, results, all_users, userVars, puts, failed>>

\* lines 258-263: set(user_list)
remove_duplicates(user_list) == Range(user_list)

\* line 498
main_remove_duplicates ==
    /\ pc = "remove_duplicates"
    /\ all_users' = remove_duplicates(all_user_ids)
    /\ pc' = "iterate_users"
    /\ UNCHANGED <<envVars, remote, run, all_courses, course_task, results, all_user_ids, userVars, logVars, puts, failed>>

(***************************************************************************)
(* Synchronization: lines 266-445.                                         *)
(***************************************************************************)
\* line 501
desired_preference == NOTIFICATION_OPTIONS[environ["NOTIFICATION_OPTION"]]

\* lines 274-294: the total is logged and one task per element of user_list
\* is submitted
iterate_users ==
    /\ pc = "iterate_users"
    /\ task' = [u \in Users |-> IF u \in all_users THEN "pending" ELSE "none"]
    /\ LogAppend(0, Line(0, "Total", 0, ""))
    /\ pc' = "wait"
    /\ UNCHANGED <<envVars, remote, run, courseVars, channel, preferences, futures, canvas_output, puts, failed>>

\* lines 327-329: the record is closed by the 'User change time' line
Closed(output) == Append(output, Line(0, "User change time", 0, ""))

\* the lines of a record carry the user they are about
Stamp(u, output) == [i \in 1..Len(output) |-> [output[i] EXCEPT !.user = u]]

\* lines 310-320: get_user, then the two header lines; with no channel at
\* all update_user_notification_preferences returns at once
submit_user_for_change(u) ==
    /\ pc = "wait"
    /\ task[u] = "pending"
    /\ Running(task, {"fetch", "put", "log"}) < MAX_THREADS
    /\ \/ /\ LET header == <<Line(u, "header", 0, ""), Line(u, "separator", 0, "")>>
             IN  IF Len(remote[u]) = 0
                 THEN /\ task' = [task EXCEPT ![u] = "log"]
                      /\ canvas_output' = [canvas_output EXCEPT ![u] = Stamp(u, Closed(header))]
                      /\ UNCHANGED channel
                 ELSE /\ task' = [task EXCEPT ![u] = "fetch"]
                      /\ canvas_output' = [canvas_output EXCEPT ![u] = header]
                      /\ channel' = [channel EXCEPT ![u] = 1]
          /\ UNCHANGED failed
       \/ /\ CanFail
          /\ task' = [task EXCEPT ![u] = "raised"]
          /\ failed' = failed \cup {Failure("get_user", u, 0, "")}
          /\ UNCHANGED <<channel, canvas_output>>
    /\ UNCHANGED <<envVars, remote, run, pc, courseVars, preferences, futures, logVars, puts>>

\* response.json()["notification_preferences"] of the GET for a channel
notification_preferences(u, c) ==
    [i \in 1..Len(Notifications) |->
        [notification |-> Notifications[i], frequency |-> remote[u][c][Notifications[i]]]]

\* lines 382-383: the condition of the filter
needs_update_excluded_too(pref, desired) == pref.frequency # desired

needs_update_always(pref, desired) == ~(pref.notification \in EXCLUDED_NOTIFICATIONS)

needs_update(pref, desired) ==
    /\ pref.frequency # desired
    /\ ~(pref.notification \in EXCLUDED_NOTIFICATIONS)

\* lines 379-384
changeset(u, c, desired) ==
    SelectSeq(notification_preferences(u, c), LAMBDA pref : needs_update(pref, desired))

\* lines 348-402, one channel: the channel line, the GET and the filter.
\* An empty list ends update_user_notification_preferences (line 388);
\* otherwise one write per preference is submitted.  The except clauses
\* of lines 359-374 name canvasapi exceptions, which requests.get never
\* raises: a failed GET (a requests exception, or a body without the
\* preferences) ends the task with the exception.
fetch_preferences(u) ==
    /\ task[u] = "fetch"
    /\ \/ /\ LET c == channel[u]
                 prefs == changeset(u, c, desired_preference)
                 text == Append(canvas_output[u], Line(u, "channel", c, ""))
             IN  IF Len(prefs) = 0
                 THEN /\ canvas_output' = [canvas_output EXCEPT ![u] =
                              Stamp(u, Closed(Append(text, Line(u, "No Preferences to update.", 0, ""))))]
                      /\ task' = [task EXCEPT ![u] = "log"]
                      /\ UNCHANGED <<preferences, futures>>
                 ELSE /\ canvas_output' = [canvas_output EXCEPT ![u] = text]
                      /\ preferences' = [preferences EXCEPT ![u] = prefs]
                      /\ futures' = [futures EXCEPT ![u] = [i \in 1..Len(prefs) |-> "queued"]]
                      /\ task' = [task EXCEPT ![u] = "put"]
          /\ UNCHANGED failed
       \/ /\ CanFail
          /\ task' = [task EXCEPT ![u] = "raised"]
          /\ failed' = failed \cup {Failure("get", u, channel[u], "")}
          /\ UNCHANGED <<preferences, futures, canvas_output>>
    /\ UNCHANGED <<envVars, remote, run, pc, courseVars, channel, logVars, puts>>

\* lines 414-445, one write of the inner pool: the PUT is issued; the
\* platform applies it and answers ok, or answers with an error status, or
\* the request raises
send_to_canvas(u, i) ==
    /\ task[u] = "put"
    /\ futures[u][i] = "queued"
    /\ LET c == channel[u]
           pref == preferences[u][i]
       IN  /\ puts' = [puts EXCEPT ![<<u, c, pref.notification>>] = Append(@, [run |-> run, frequency |-> pref.frequency])]
           /\ \/ /\ remote' = [remote EXCEPT ![u][c][pref.notification] = desired_preference]
                 /\ futures' = [futures EXCEPT ![u][i] = "OK"]
                 /\ UNCHANGED failed
              \/ /\ CanFail
                 /\ futures' = [futures EXCEPT ![u][i] = "FAILED"]
                 /\ failed' = failed \cup {Failure("put status", u, c, pref.notification)}
                 /\ UNCHANGED remote
              \/ /\ CanFail
                 /\ futures' = [futures EXCEPT ![u][i] = "raised"]
                 /\ failed' = failed \cup {Failure("put", u, c, pref.notification)}
                 /\ UNCHANGED remote
    /\ UNCHANGED <<envVars, run, pc, courseVars, task, channel, preferences, canvas_output, logVars>>

\* line 445: the outcome line of a write that returned
outcome(u, i) == Line(u, futures[u][i], channel[u], preferences[u][i].notification)

\* lines 391-402: concurrent.futures.wait(submission_futures) and the end of
\* the with block return when every submitted write has ended
wait_for_none(submission_futures) == TRUE

wait(submission_futures) ==
    \A i \in DOMAIN submission_futures : submission_futures[i] # "queued"

\* lines 402-408: every write has ended; future.result() raises the
\* exception of a write that raised, otherwise the outcome lines and 'All
\* updates sent.' are appended and the loop goes to the next channel
collect_outcomes(u) ==
    /\ task[u] = "put"
    /\ wait(futures[u])
    /\ IF \E i \in DOMAIN futures[u] : futures[u][i] = "raised"
       THEN /\ task' = [task EXCEPT ![u] = "raised"]
            /\ UNCHANGED <<channel, canvas_output>>
       ELSE LET text == Append(canvas_output[u] \o [i \in DOMAIN futures[u] |-> outcome(u, i)],
                               Line(u, "All updates sent.", 0, ""))
            IN  IF channel[u] < Len(remote[u])
                THEN /\ channel' = [channel EXCEPT ![u] = @ + 1]
                     /\ canvas_output' = [canvas_output EXCEPT ![u] = text]
                     /\ task' = [task EXCEPT ![u] = "fetch"]
                ELSE /\ canvas_output' = [canvas_output EXCEPT ![u] = Stamp(u, Closed(text))]
                     /\ task' = [task EXCEPT ![u] = "log"]
                     /\ UNCHANGED channel
    /\ preferences' = [preferences EXCEPT ![u] = <<>>]
    /\ futures' = [futures EXCEPT ![u] = <<>>]
    /\ UNCHANGED <<envVars, remote, run, pc, courseVars, logVars, puts, failed>>

\* lines 320-329: the loop of lines 331-335 is reached when
\* update_user_notification_preferences has returned and the record is closed
output_partial(u) == task[u] \in {"put", "log"} /\ canvas_output[u] # <<>>

output_complete(u) == task[u] = "log"

\* lines 331-335, one turn of the loop: FILE_LOCK is taken, one line is
\* logged, FILE_LOCK is released
log_output(u) ==
    /\ output_complete(u)
    /\ LogAppend(u, Head(canvas_output[u]))
    /\ canvas_output' = [canvas_output EXCEPT ![u] = Tail(@)]
    /\ task' = [task EXCEPT ![u] = IF Len(canvas_output[u]) = 1 THEN "done" ELSE "log"]
    /\ UNCHANGED <<envVars, remote, run, pc, courseVars, channel, preferences, futures, puts, failed>>

\* lines 297 and 503-506: every future has ended; main logs the elapsed time
main_completed ==
    /\ pc = "wait"
    /\ pool_joined(task)
    /\ LogAppend(0, Line(0, "Program completed", 0, ""))
    /\ pc' = "done"
    /\ UNCHANGED <<envVars, remote, run, courseVars, userVars, puts, failed>>

\* after a run in which no remote call failed, the script is started again
\* with the same command line and configuration
rerun ==
    /\ pc = "done"
    /\ run = 1
    /\ run' = 2
    /\ failed = {}
    /\ pc' = "config"
    /\ all_courses' = <<>>
    /\ course_task' = <<>>
    /\ results' = <<>>
    /\ all_user_ids' = <<>>
    /\ all_users' = {}
    /\ task' = [u \in Users |-> "none"]
    /\ channel' = [u \in Users |-> 0]
    /\ preferences' = [u \in Users |-> <<>>]
    /\ futures' = [u \in Users |-> <<>>]
    /\ canvas_output' = [u \in Users |-> <<>>]
    /\ log' = EmptyLog
    /\ failed' = {}
    /\ start' = remote
    /\ UNCHANGED <<environ, TERM_IDS, members, remote, puts>>

Next ==
    \/ main_validate
    \/ connect_to_canvas
    \/ get_account
    \/ get_courses_by_term_ids
    \/ \E i \in DOMAIN course_task : threaded_courses(i)
    \/ get_user_ids
    \/ main_remove_duplicates
    \/ iterate_users
    \/ \E u \in Users : submit_user_for_change(u)
    \/ \E u \in Users : fetch_preferences(u)
    \/ \E u \in Users : \E i \in DOMAIN futures[u] : send_to_canvas(u, i)
    \/ \E u \in Users : collect_outcomes(u)
    \/ \E u \in Users : log_output(u)
    \/ main_completed
    \/ rerun

Spec == Init /\ [][Next]_vars

\* main() up to the submission of the user tasks, over any course lists
NextEnum ==
    \/ main_validate
    \/ connect_to_canvas
    \/ get_account
    \/ get_courses_by_term_ids
    \/ \E i \in DOMAIN course_task : threaded_courses(i)
    \/ get_user_ids
    \/ main_remove_duplicates
    \/ iterate_users

InitLists == InitEnum /\ InitRun

SpecEnum == InitLists /\ [][NextEnum]_vars

(***************************************************************************)
(* What the properties below speak of.                                     *)
(***************************************************************************)
\* the changeset of channel c of user u when the run began: the
\* preferences that differ from the desired frequency and are not excluded
Expected(u) ==
    {ck \in (1..Len(start[u])) \X Keys :
        /\ start[u][ck[1]][ck[2]] # desired_preference
        /\ ck[2] \notin EXCLUDED_NOTIFICATIONS}

\* the PUTs this run has issued: <<user, channel, notification>> and the
\* position in that preference's list of PUTs
Issued ==
    UNION {{<<t, i>> : i \in {j \in 1..Len(puts[t]) : puts[t][j].run = run}} : t \in DOMAIN puts}

WritesOf(u) == {<<p[1][2], p[1][3]>> : p \in {q \in Issued : q[1][1] = u}}

LinesOf(u, kinds) == {i \in 1..Len(log[u]) : log[u][i].kind \in kinds}

\* the set has been handed to the synchronization phase
Handed == pc \in {"iterate_users", "wait", "done"}

RECURSIVE ListedLen(_)
ListedLen(courses) ==
    IF courses = <<>> THEN 0
    ELSE Len(members[Head(courses)]) + ListedLen(Tail(courses))

(***************************************************************************)
(* C1.  The lines of one user's record are contiguous in the log: no line  *)
(* of another user's record is appended between two lines of a record.     *)
(* Open are the users whose record is partly in the log, with lines still  *)
(* to come: no user appends a line while another user's record is open.    *)
(***************************************************************************)
Open == {v \in Users : task[v] = "log" /\ log[v] # <<>>}

C1_RecordsContiguous ==
    [][\A w \in Users : log'[w] # log[w] => Open \ {w} = {}]_vars

(***************************************************************************)
(* C2.  When the run has ended and exactly one user's task failed (raised) *)
(* during a preference fetch or write, every other user's task has         *)
(* completed, has issued exactly the writes of its changesets and has      *)
(* logged as many outcome lines; the failing user has no 'OK' line.        *)
(***************************************************************************)
C2_FailureIsolated ==
    \A f \in failed :
        (pc = "done" /\ failed = {f} /\ f.call \in {"get", "put"}) =>
            \A u \in all_users :
                IF u = f.id
                THEN LinesOf(u, {"OK"}) = {}
                ELSE /\ task[u] = "done"
                     /\ WritesOf(u) = Expected(u)
                     /\ Cardinality(LinesOf(u, {"OK", "FAILED"})) = Cardinality(Expected(u))

(***************************************************************************)
(* C3.  When a run has ended and no remote call of it failed, every        *)
(* non-excluded preference of every channel of every user of the set is at *)
(* the desired frequency, and the number of writes issued is the sum of    *)
(* the changeset sizes.                                                    *)
(***************************************************************************)
C3_AllSynchronized ==
    (pc = "done" /\ failed = {}) =>
        /\ \A u \in all_users : \A c \in 1..Len(remote[u]) : \A k \in Keys \ EXCLUDED_NOTIFICATIONS :
               remote[u][c][k] = desired_preference
        /\ Cardinality(Issued) = Cardinality({uck \in all_users \X (1..MaxChannels) \X Keys :
                                                  <<uck[2], uck[3]>> \in Expected(uck[1])})

(***************************************************************************)
(* C4.  No PUT is ever issued for a notification of                        *)
(* EXCLUDED_NOTIFICATIONS.                                                 *)
(***************************************************************************)
C4_ExclusionInvariant ==
    \A t \in DOMAIN puts : t[3] \in EXCLUDED_NOTIFICATIONS => puts[t] = <<>>

\* a user is done, has had preferences written on a channel, and the
\* excluded preference of that channel is not at the desired frequency
C4_Witness ==
    \E u \in Users :
        /\ task[u] = "done"
        /\ \E c \in 1..Len(remote[u]) :
              /\ remote[u][c]["account_user_notification"] # desired_preference
              /\ \E k \in Keys : puts[<<u, c, k>>] # <<>>

(***************************************************************************)
(* C5.  No user task has started (no get_user, fetch or write) unless      *)
(* every course task has finished and the deduplicated set is computed;    *)
(* once handed to the synchronization phase the set does not change.       *)
(***************************************************************************)
UserWorkStarted ==
    \/ \E u \in Users : task[u] \notin {"none", "pending"}
    \/ Issued # {}

EnumerationDone ==
    /\ Len(course_task) = Len(all_courses)
    /\ \A i \in DOMAIN course_task : course_task[i] = "done"
    /\ all_user_ids = collect_results(results)
    /\ all_users = Range(all_user_ids)

C5_PhaseOrder ==
    /\ [](UserWorkStarted => EnumerationDone)
    /\ [][pc = "wait" => all_users' = all_users]_vars

\* a user task is at its fetch after two course tasks have run
C5_Witness ==
    /\ Len(all_courses) >= 2
    /\ \E u \in Users : task[u] = "fetch"

(***************************************************************************)
(* C6.  A course whose member resolution fails contributes an empty list:  *)
(* get_user_ids does not raise and returns the other courses' lists.       *)
(***************************************************************************)
C6_CourseFailureIsolated ==
    (pc # "get_user_ids" /\ \E i \in DOMAIN course_task : course_task[i] = "raised") =>
        /\ pc # "raised"
        /\ all_user_ids = collect_results(results)

(***************************************************************************)
(* C7.  A run in which only non-fatal failures happened (a course          *)
(* resolution, a user lookup, a fetch or a write) is never aborted.        *)
(***************************************************************************)
C7_NeverAborted == failed # {} => pc # "raised"

(***************************************************************************)
(* C8.  No PUT is issued for a preference that was fetched at the desired  *)
(* frequency, and a run started after a run without failures issues no PUT *)
(* at all.                                                                 *)
(***************************************************************************)
C8_Idempotent ==
    \A t \in DOMAIN puts : \A i \in 1..Len(puts[t]) :
        /\ puts[t][i].frequency # desired_preference
        /\ puts[t][i].run = 1

\* the second run has ended, and the first run had written preferences of a
\* user of the set
C8_Witness ==
    /\ run = 2
    /\ pc = "done"
    /\ \E t \in DOMAIN puts : t[1] \in all_users /\ puts[t] # <<>>

(***************************************************************************)
(* C9.  The set handed to the synchronization phase is the union of the    *)
(* courses' member lists, is no larger than their total length, and each   *)
(* of its ids gets one task.                                               *)
(***************************************************************************)
C9_Deduplicated ==
    Handed =>
        /\ all_users = UNION {Range(members[all_courses[i]]) : i \in DOMAIN all_courses}
        /\ Cardinality(all_users) <= ListedLen(all_courses)
        /\ (pc = "wait" => {u \in Users : task[u] # "none"} = all_users)

\* the set is handed over and is smaller than the lists of two courses
C9_Witness ==
    /\ pc = "wait"
    /\ all_users # {}
    /\ \E i, j \in DOMAIN all_courses : i # j /\ all_courses[i] # all_courses[j]
    /\ Cardinality(all_users) < ListedLen(all_courses)

(***************************************************************************)
(* C10.  The set handed to the synchronization phase depends only on which *)
(* terms are listed, not on their order nor on the order in which the      *)
(* course tasks end.                                                       *)
(***************************************************************************)
C10_OrderIndependent ==
    Handed =>
        all_users = UNION {Range(members[c]) :
                              c \in UNION {Range(get_courses(t)) : t \in Range(TERM_IDS)}}

\* the terms are listed in descending order, their courses have different
\* members, and the set is handed over
C10_Witness ==
    /\ pc = "wait"
    /\ Len(TERM_IDS) >= 2
    /\ TERM_IDS[1] > TERM_IDS[2]
    /\ Range(members[TERM_IDS[1]]) # Range(members[TERM_IDS[2]])
    /\ Range(members[TERM_IDS[1]]) # {}
    /\ Range(members[TERM_IDS[2]]) # {}

(***************************************************************************)
(* C11.  A run with a required configuration value missing never gets past *)
(* the validation; and when main has raised at the validation, at the      *)
(* connection or at the account (no course task raised), no course is      *)
(* enumerated, no course task and no user task exists, no fetch or write   *)
(* was issued, and nothing happens afterwards.                             *)
(***************************************************************************)
Fatal == pc = "raised" /\ \A i \in DOMAIN course_task : course_task[i] # "raised"

NothingStarted ==
    /\ all_courses = <<>>
    /\ course_task = <<>>
    /\ all_users = {}
    /\ \A u \in Users : task[u] = "none" /\ log[u] = <<>>
    /\ Issued = {}
    /\ failed = {}
    /\ remote = start

C11_FatalStopsRun ==
    /\ []((\E n \in ConfigNames : environ[n] = None) => pc \in {"config", "raised"})
    /\ [](Fatal => NothingStarted)
    /\ [][Fatal => UNCHANGED vars]_vars

\* main raised after 'Program start': at the connection or at the account
C11_Witness == Fatal /\ log[0] # <<>>

(***************************************************************************)
(* C12.  An empty changeset does not end the user's synchronization: when  *)
(* a user's task has completed, every channel of the user has its channel  *)
(* line in the record (it was fetched) and every element of its changeset  *)
(* was written.                                                            *)
(***************************************************************************)
C12_EmptyChangesetContinues ==
    \A u \in Users :
        task[u] = "done" =>
            \A c \in 1..Len(remote[u]) :
                /\ \E i \in LinesOf(u, {"channel"}) : log[u][i].channel = c
                /\ \A k \in Keys : <<c, k>> \in Expected(u) => <<c, k>> \in WritesOf(u)

(***************************************************************************)
(* C13.  A failed preference fetch does not end the user's task: the task  *)
(* never ends with the exception, and when the run has ended the user's    *)
(* record is logged, holds a failed outcome for that channel and a channel *)
(* line for every later channel.                                           *)
(***************************************************************************)
C13_FetchFailureCaught ==
    \A f \in failed :
        f.call = "get" =>
            /\ task[f.id] # "raised"
            /\ pc = "done" =>
                  /\ task[f.id] = "done"
                  /\ \E i \in LinesOf(f.id, {"FAILED"}) : log[f.id][i].channel = f.channel
                  /\ \A c \in (f.channel + 1)..Len(remote[f.id]) :
                         \E i \in LinesOf(f.id, {"channel"}) : log[f.id][i].channel = c

(***************************************************************************)
(* C14.  Every write yields an outcome and none an exception: no write of  *)
(* the inner pool ends with an exception, and once the writes of a channel *)
(* in which a write failed have been collected, the user's record holds an *)
(* outcome line for every write issued on that channel.                    *)
(***************************************************************************)
RecordOf(u) == log[u] \o canvas_output[u]

C14_WriteYieldsOutcome ==
    /\ \A u \in Users : \A i \in DOMAIN futures[u] : futures[u][i] # "raised"
    /\ \A f \in failed :
           (f.call \in {"put", "put status"} /\ task[f.id] # "put") =>
               \A k \in Keys :
                   <<f.channel, k>> \in WritesOf(f.id) =>
                       \E i \in DOMAIN RecordOf(f.id) :
                           /\ RecordOf(f.id)[i].kind \in {"OK", "FAILED"}
                           /\ RecordOf(f.id)[i].channel = f.channel
                           /\ RecordOf(f.id)[i].notification = k

(***************************************************************************)
(* C15.  A failed user lookup is caught inside the user's task: the task   *)
(* does not end with the exception, it issues no write and has no outcome  *)
(* line, and when the run has ended the failure is in the log and every    *)
(* other user's task has run to its end.                                   *)
(***************************************************************************)
C15_LookupFailureCaught ==
    \A f \in failed :
        f.call = "get_user" =>
            /\ task[f.id] # "raised"
            /\ WritesOf(f.id) = {}
            /\ LinesOf(f.id, {"OK", "FAILED"}) = {}
            /\ pc = "done" =>
                  /\ log[f.id] # <<>>
                  /\ \A u \in all_users \ {f.id} : task[u] \in {"done", "raised"}

(***************************************************************************)
(* C16.  Exactly once per changeset element: no preference is written      *)
(* twice in one run, and when a user's task has ended, for every channel   *)
(* whose changeset was computed the writes issued are exactly the elements *)
(* of the changeset and each of them has exactly one outcome line in the   *)
(* user's logged record.                                                   *)
(***************************************************************************)
WriteCount(t) == Cardinality({i \in 1..Len(puts[t]) : puts[t][i].run = run})

OutcomeLines(u, c, k) ==
    {i \in LinesOf(u, {"OK", "FAILED"}) : log[u][i].channel = c /\ log[u][i].notification = k}

ChangesetComputed(u, c) ==
    \E i \in DOMAIN RecordOf(u) : RecordOf(u)[i].kind = "channel" /\ RecordOf(u)[i].channel = c

C16_ExactlyOnce ==
    /\ \A t \in DOMAIN puts : WriteCount(t) <= 1
    /\ \A u \in Users :
           task[u] \in {"done", "raised"} =>
               \A c \in 1..Len(remote[u]) :
                   ChangesetComputed(u, c) =>
                       \A k \in Keys :
                           /\ <<c, k>> \in Expected(u) <=> <<c, k>> \in WritesOf(u)
                           /\ <<c, k>> \in WritesOf(u) => Cardinality(OutcomeLines(u, c, k)) = 1

(***************************************************************************)
(* C17.  Fan-in per channel: a user's task issues no write for a channel   *)
(* after the one it is at, writes are in flight only while the task waits  *)
(* for them, and for every channel before the one the task is at, every    *)
(* element of the changeset was written and its outcome is in the record.  *)
(***************************************************************************)
HasOutcome(u, c, k) ==
    \E i \in DOMAIN RecordOf(u) :
        /\ RecordOf(u)[i].kind \in {"OK", "FAILED"}
        /\ RecordOf(u)[i].channel = c
        /\ RecordOf(u)[i].notification = k

C17_FanIn ==
    \A u \in Users :
        /\ \A ck \in WritesOf(u) : ck[1] <= channel[u]
        /\ (\E i \in DOMAIN futures[u] : futures[u][i] = "queued") => task[u] = "put"
        /\ \A c \in 1..(channel[u] - 1) : \A k \in Keys :
               <<c, k>> \in Expected(u) => <<c, k>> \in WritesOf(u) /\ HasOutcome(u, c, k)

\* a task is at its second channel with a write in flight, after two writes
\* on its first channel
C17_Witness ==
    \E u \in Users :
        /\ channel[u] = 2
        /\ task[u] = "put"
        /\ \E i \in DOMAIN futures[u] : futures[u][i] = "queued"
        /\ Cardinality({ck \in WritesOf(u) : ck[1] = 1}) >= 2

(***************************************************************************)
(* C19.  A user's record is logged all or nothing: while a line of a user  *)
(* is in the log, the user's task has got through every remote call        *)
(* without raising and has no write in flight or uncollected; a task that  *)
(* raised has no line in the log, whatever it wrote before; and once the   *)
(* record is being logged the task issues no further write.                *)
(***************************************************************************)
PutsOf(u) == [t \in {s \in DOMAIN puts : s[1] = u} |-> puts[t]]

C19_RecordAllOrNothing ==
    /\ [](\A u \in Users :
              /\ log[u] # <<>> => task[u] \in {"log", "done"} /\ futures[u] = <<>>
              /\ task[u] = "raised" => log[u] = <<>>)
    /\ [][\A u \in Users : task[u] \in {"log", "done"} =>
              PutsOf(u)' = PutsOf(u) /\ remote'[u] = remote[u]]_vars

\* the run has ended; a task raised after it had issued a write
C19_Witness ==
    /\ pc = "done"
    /\ \E u \in Users : task[u] = "raised" /\ WritesOf(u) # {}

====
